---- MODULE Spec2Model ----
(***************************************************************************)
(* Model of price_tracker.py: price extraction from HTML pages and JSON    *)
(* API documents, candidate filtering, site classification, and the        *)
(* change-detection / alerting step of check_item.                         *)
(*                                                                         *)
(* Python strings are sequences of one-character strings.  The rupee sign  *)
(* U+20B9 is the single character Rupee.  Python's None, where an integer  *)
(* is expected, is the value None (-1), which no digit string parses to.   *)
(***************************************************************************)
EXTENDS Integers, Sequences, FiniteSets, TLC

VARIABLES price_history, notifications, idx, run, clock, last,
          url, page, chosen,
          doc, found

vars == <<price_history, notifications, idx, run, clock, last, url, page, chosen, doc, found>>
mainVars == <<price_history, notifications, idx, run, clock, last>>
htmlVars == <<url, page, chosen>>
jsonVars == <<doc, found>>

\* ---------------------------------------------------------------- Config
MIN_REASONABLE_PRICE == 1000
MAX_REASONABLE_PRICE == 200000
None == -1
Rupee == "Rs"

\* ---------------------------------------------------------------- Text helpers
Digits == <<"0", "1", "2", "3", "4", "5", "6", "7", "8", "9">>

DigitSet == {Digits[d] : d \in 1..10}

IsDigit(c) == c \in DigitSet

DigitVal(c) == (CHOOSE d \in 1..10 : Digits[d] = c) - 1

UpperLetters == <<"A", "B", "C", "D", "E", "F", "G", "H", "I", "J", "K", "L", "M",
                  "N", "O", "P", "Q", "R", "S", "T", "U", "V", "W", "X", "Y", "Z">>

LowerLetters == <<"a", "b", "c", "d", "e", "f", "g", "h", "i", "j", "k", "l", "m",
                  "n", "o", "p", "q", "r", "s", "t", "u", "v", "w", "x", "y", "z">>

UpperSet == {UpperLetters[i] : i \in 1..26}

LowerSet == {LowerLetters[i] : i \in 1..26}

\* str.lower() on one character
LowerChar(c) ==
    IF c \in UpperSet
    THEN LowerLetters[CHOOSE i \in 1..26 : UpperLetters[i] = c]
    ELSE c

\* str.lower()
Lower(s) == [i \in 1..Len(s) |-> LowerChar(s[i])]

\* regex \w
IsWordChar(c) ==
    \/ IsDigit(c)
    \/ c = "_"
    \/ c \in UpperSet
    \/ c \in LowerSet

\* regex \s
IsSpace(c) == c = " "

\* regex class [\d,]
IsDigitOrComma(c) == IsDigit(c) \/ c = ","

\* "sub in s"
Contains(s, sub) ==
    \E i \in 1..(Len(s) - Len(sub) + 1) : SubSeq(s, i, i + Len(sub) - 1) = sub

RECURSIVE DigitsToInt(_)
\* int(s2) for a non-empty digit string
DigitsToInt(s) ==
    IF Len(s) = 0 THEN 0
    ELSE 10 * DigitsToInt(SubSeq(s, 1, Len(s) - 1)) + DigitVal(s[Len(s)])

RECURSIVE IntToStr(_)
\* str(n) for a non-negative integer
IntToStr(n) ==
    IF n < 10 THEN <<Digits[n + 1]>>
    ELSE Append(IntToStr(n \div 10), Digits[(n % 10) + 1])

only_digits_int(s) ==
    LET s2 == SelectSeq(s, IsDigit)
    IN IF s2 = <<>> THEN None ELSE DigitsToInt(s2)

\* Python truthiness of an int-or-None result ("if n:", "if price:")
Truthy(n) == n # None /\ n # 0

RECURSIVE RunLen(_, _, _)
\* length of the greedy match of [\d,]{0,cap} starting at position i
RunLen(s, i, cap) ==
    IF cap = 0 \/ i > Len(s) \/ ~IsDigitOrComma(s[i]) THEN 0
    ELSE 1 + RunLen(s, i + 1, cap - 1)

RECURSIVE SkipSpaces(_, _)
\* position after the greedy match of \s* starting at position i
SkipSpaces(s, i) ==
    IF i <= Len(s) /\ IsSpace(s[i]) THEN SkipSpaces(s, i + 1) ELSE i

\* match of  Rupee \s* ([\d,]{3,7})  anchored at position i:
\* <<group, position after the match>>, or <<>> when there is none
MatchCurrencyAt(s, i) ==
    IF i > Len(s) \/ s[i] # Rupee THEN <<>>
    ELSE LET j == SkipSpaces(s, i + 1)
             n == RunLen(s, j, 7)
         IN IF n >= 3 THEN <<SubSeq(s, j, j + n - 1), j + n>> ELSE <<>>

\* match of  ([\d,]{4,7})  anchored at position i
MatchBareAt(s, i) ==
    LET n == RunLen(s, i, 7)
    IN IF n >= 4 THEN <<SubSeq(s, i, i + n - 1), i + n>> ELSE <<>>

RECURSIVE FindCurrency(_, _)
\* re.finditer(Rupee \s* ([\d,]{3,7}), s): the groups, left to right
FindCurrency(s, i) ==
    IF i > Len(s) THEN <<>>
    ELSE LET m == MatchCurrencyAt(s, i)
         IN IF m = <<>> THEN FindCurrency(s, i + 1)
            ELSE <<m[1]>> \o FindCurrency(s, m[2])

RECURSIVE FindBare(_, _)
\* re.finditer(([\d,]{4,7}), s): the groups, left to right
FindBare(s, i) ==
    IF i > Len(s) THEN <<>>
    ELSE LET m == MatchBareAt(s, i)
         IN IF m = <<>> THEN FindBare(s, i + 1)
            ELSE <<m[1]>> \o FindBare(s, m[2])

\* re.search(r"/|per month|mo\b|EMI|emi", val, re.I)
IsInstallmentText(val) ==
    LET v == Lower(val)
    IN \/ Contains(v, <<"/">>)
       \/ Contains(v, <<"p", "e", "r", " ", "m", "o", "n", "t", "h">>)
       \/ \E i \in 1..(Len(v) - 1) :
            /\ v[i] = "m" /\ v[i + 1] = "o"
            /\ (i + 1 = Len(v) \/ ~IsWordChar(v[i + 2]))
       \/ Contains(v, <<"e", "m", "i">>)

\* ---------------------------------------------------------------- Candidate filter
InBounds(v) == v >= MIN_REASONABLE_PRICE /\ v <= MAX_REASONABLE_PRICE

RECURSIVE SortedSeq(_)
\* ascending sequence of the elements of a finite set of integers
SortedSeq(S) ==
    IF S = {} THEN <<>>
    ELSE LET m == CHOOSE x \in S : \A y \in S : x <= y
         IN <<m>> \o SortedSeq(S \ {m})

\* filter_candidates without the upper bound test
filter_candidates_no_max(candidates) ==
    SortedSeq({v \in {candidates[i] : i \in 1..Len(candidates)} :
                 v # None /\ ~(v < MIN_REASONABLE_PRICE)})

\* cleaned: the distinct values that are not None and not out of bounds, sorted
filter_candidates(candidates) ==
    SortedSeq({v \in {candidates[i] : i \in 1..Len(candidates)} :
                 /\ v # None
                 /\ ~(v < MIN_REASONABLE_PRICE \/ v > MAX_REASONABLE_PRICE)})

\* ---------------------------------------------------------------- HTML extraction
\* SITE_SELECTORS
AmazonSelectors == <<"#priceblock_ourprice", "#priceblock_dealprice", ".a-price .a-offscreen",
                     ".a-price-whole", "meta[itemprop='price']">>

DefaultSelectors == <<".price", ".product-price", "meta[itemprop='price']", ".offer-price">>

AllSelectors == {AmazonSelectors[i] : i \in 1..Len(AmazonSelectors)}
                \cup {DefaultSelectors[i] : i \in 1..Len(DefaultSelectors)}

\* A parsed page (soup) is the text (or content attribute) of the first element each
\* selector matches, "" when none matches, plus the rest of the document.
RECURSIVE extract_candidates_by_selectors(_, _)
extract_candidates_by_selectors(soup, selectors) ==
    IF selectors = <<>> THEN <<>>
    ELSE LET val == soup.els[Head(selectors)]
             n == only_digits_int(val)
             rest == extract_candidates_by_selectors(soup, Tail(selectors))
         IN IF val # <<>> /\ ~IsInstallmentText(val) /\ Truthy(n)
            THEN <<n>> \o rest
            ELSE rest

RECURSIVE ParseAll(_)
\* only_digits_int of each group, keeping the truthy ones
ParseAll(groups) ==
    IF groups = <<>> THEN <<>>
    ELSE LET n == only_digits_int(Head(groups))
         IN IF Truthy(n) THEN <<n>> \o ParseAll(Tail(groups)) ELSE ParseAll(Tail(groups))

\* candidates of the currency-prefixed pass
CurrencyCandidates(text) == ParseAll(FindCurrency(text, 1))

\* candidates of the bare digit-group pass
BareCandidates(text) == ParseAll(FindBare(text, 1))

fallback_regex_candidates(text) == CurrencyCandidates(text) \o BareCandidates(text)

\* the selector list extract_price_from_html picks for a url
SelectorProfile(u) ==
    IF Contains(Lower(u), <<"a", "m", "a", "z", "o", "n">>) THEN "amazon" ELSE "default"

ProfileSelectors(u) ==
    IF SelectorProfile(u) = "amazon" THEN AmazonSelectors ELSE DefaultSelectors

\* candidates of the three stages of extract_price_from_html
Stage1Candidates(soup, u) == extract_candidates_by_selectors(soup, ProfileSelectors(u))

Stage2Candidates(soup, u) ==
    Stage1Candidates(soup, u) \o extract_candidates_by_selectors(soup, DefaultSelectors)

Stage3Candidates(text) == fallback_regex_candidates(text)

\* filtered[-1] in place of filtered[0]
FirstAsLast(filtered) == filtered[Len(filtered)]

\* filtered[0]
First(filtered) == filtered[1]

\* the three "if filtered: return filtered[0]" tests, on the filtered lists of the stages
PickStage(f1, f2, f3) ==
    IF f1 # <<>> THEN [stage |-> "selector", price |-> First(f1)]
    ELSE IF f2 # <<>> THEN [stage |-> "fallback", price |-> First(f2)]
    ELSE IF f3 # <<>> THEN [stage |-> "regex", price |-> First(f3)]
    ELSE [stage |-> "none", price |-> None]

\* extract_price_from_html with the stage it returned from
ExtractFromHtml(soup, text, u) ==
    PickStage(filter_candidates(Stage1Candidates(soup, u)),
              filter_candidates(Stage2Candidates(soup, u)),
              filter_candidates(Stage3Candidates(text)))

extract_price_from_html(soup, text, u) == ExtractFromHtml(soup, text, u).price

guess_site(u) ==
    IF u = <<>> THEN "unknown"
    ELSE IF Contains(Lower(u), <<"a", "m", "a", "z", "o", "n", ".">>) THEN "amazon"
    ELSE IF Contains(Lower(u), <<"f", "l", "i", "p", "k", "a", "r", "t", ".">>) THEN "flipkart"
    ELSE "unknown"

\* document order of the elements the selectors address
DocOrder == AmazonSelectors \o <<".price", ".product-price", ".offer-price">>

RECURSIVE HtmlOf(_, _)
\* the raw document: every present element's text after its tag, then the rest
HtmlOf(soup, sels) ==
    IF sels = <<>> THEN soup.body
    ELSE IF soup.els[Head(sels)] = <<>> THEN HtmlOf(soup, Tail(sels))
    ELSE <<"<">> \o soup.els[Head(sels)] \o <<">">> \o HtmlOf(soup, Tail(sels))

\* r.text of a fetched page
Html(soup) == HtmlOf(soup, DocOrder)

\* ---------------------------------------------------------------- JSON extraction
\* A JSON value is [t, n, s, kids]: t is "dict", "list", "num", "str" or "null";
\* kids holds a dict's entries [k, v] in document order, or a list's items as
\* entries whose key is unused.
JNum(x) == [t |-> "num", n |-> x, s |-> <<>>, kids |-> <<>>]
JStr(x) == [t |-> "str", n |-> 0, s |-> x, kids |-> <<>>]
JNull == [t |-> "null", n |-> 0, s |-> <<>>, kids |-> <<>>]
JDict(entries) == [t |-> "dict", n |-> 0, s |-> <<>>, kids |-> entries]
JList(items) == [t |-> "list", n |-> 0, s |-> <<>>,
                 kids |-> [i \in 1..Len(items) |-> [k |-> <<>>, v |-> items[i]]]]
Entry(key, val) == [k |-> key, v |-> val]

\* str(v) of a scalar
Str(v) ==
    IF v.t = "num" THEN IntToStr(v.n)
    ELSE IF v.t = "str" THEN v.s
    ELSE <<"N", "o", "n", "e">>

\* the lower-cased key names find_price_in_json reads a price from
PriceKeys == {<<"f", "i", "n", "a", "l", "p", "r", "i", "c", "e">>,
              <<"f", "i", "n", "a", "l", "_", "p", "r", "i", "c", "e">>,
              <<"p", "r", "i", "c", "e">>,
              <<"s", "e", "l", "l", "i", "n", "g", "p", "r", "i", "c", "e">>,
              <<"s", "p">>}

IsPriceKey(k) == Lower(k) \in PriceKeys

\* the value read under a whitelisted key (lines 157-160), None when rejected
KeyedPrice(k, v) ==
    LET n == only_digits_int(Str(v))
    IN IF IsPriceKey(k) /\ Truthy(n) /\ InBounds(n) THEN n ELSE None

\* the value read from a currency pattern inside a string value (lines 162-167)
EmbeddedPrice(v) ==
    IF v.t # "str" THEN None
    ELSE LET groups == FindCurrency(v.s, 1)
         IN IF groups = <<>> THEN None
            ELSE LET n == only_digits_int(Head(groups))
                 IN IF Truthy(n) /\ InBounds(n) THEN n ELSE None

RECURSIVE find_price_in_json(_)
RECURSIVE WalkDict(_)
RECURSIVE WalkList(_)

\* the loop over obj.items()
WalkDict(entries) ==
    IF entries = <<>> THEN None
    ELSE LET k == Head(entries).k
             v == Head(entries).v
         IN IF v.t \in {"dict", "list"}
            THEN LET p == find_price_in_json(v)
                 IN IF Truthy(p) THEN p ELSE WalkDict(Tail(entries))
            ELSE IF KeyedPrice(k, v) # None THEN KeyedPrice(k, v)
            ELSE IF EmbeddedPrice(v) # None THEN EmbeddedPrice(v)
            ELSE WalkDict(Tail(entries))

\* the loop over the items of a list
WalkList(entries) ==
    IF entries = <<>> THEN None
    ELSE LET p == find_price_in_json(Head(entries).v)
         IN IF Truthy(p) THEN p ELSE WalkList(Tail(entries))

find_price_in_json(obj) ==
    IF obj.t = "dict" THEN WalkDict(obj.kids)
    ELSE IF obj.t = "list" THEN WalkList(obj.kids)
    ELSE None

\* "if data:" on a parsed document
DataTruthy(d) ==
    \/ d.t \in {"dict", "list"} /\ d.kids # <<>>
    \/ d.t = "num" /\ d.n # 0
    \/ d.t = "str" /\ d.s # <<>>

RECURSIVE fetch_flipkart_price_last_wins(_)
\* the endpoint loop without its early return: the last endpoint with a price wins
fetch_flipkart_price_last_wins(responses) ==
    IF responses = <<>> THEN None
    ELSE LET r == responses[Len(responses)]
             price == IF r.ok /\ DataTruthy(r.data) THEN find_price_in_json(r.data) ELSE None
         IN IF Truthy(price) THEN price
            ELSE fetch_flipkart_price_last_wins(SubSeq(responses, 1, Len(responses) - 1))

\* One response per endpoint of FLIPKART_API_CANDIDATES, in order: ok is FALSE when
\* the request raised or the status was not 200; data is JNull when the body could
\* not be parsed.
RECURSIVE fetch_flipkart_price_by_pid(_)
fetch_flipkart_price_by_pid(responses) ==
    IF responses = <<>> THEN None
    ELSE LET r == Head(responses)
             price == IF r.ok /\ DataTruthy(r.data) THEN find_price_in_json(r.data) ELSE None
         IN IF Truthy(price) THEN price
            ELSE fetch_flipkart_price_by_pid(Tail(responses))

\* ---------------------------------------------------------------- Inputs: pages and urls
TxtSale == <<Rupee, "4", "5", ",", "9", "9", "9">>
TxtList == <<Rupee, " ", "8", "9", ",", "9", "9", "9">>
TxtEmi == <<Rupee, "3", ",", "9", "9", "9", "/", "m", "o", "n", "t", "h">>
TxtCheap == <<Rupee, "4", "9", "9">>
TxtHuge == <<Rupee, "2", "5", "0", ",", "0", "0", "0">>

ElementTexts == {<<>>, TxtSale, TxtList, TxtEmi, TxtCheap}

BodyPlain == <<"n", "o", " ", "p", "r", "i", "c", "e">>
BodyCurrency == <<"M", "R", "P", " ", Rupee, "5", "2", ",", "9", "9", "9">>
BodyReviews == <<Rupee, " ", "4", "7", ",", "9", "9", "9", " ", "1", "2", "0", "0", " ",
                 "r", "e", "v", "i", "e", "w", "s">>
BodySku == <<"S", "K", "U", " ", "2", "0", "4", "8", "1", "7", "7", "3", "1", "5">>

Bodies == {BodyPlain, BodyCurrency, BodyReviews, BodySku}

\* the selectors whose elements the modelled pages may hold
PopulatedSelectors == {"#priceblock_ourprice", ".a-price-whole", ".price", ".offer-price"}

MkPage(f, b) ==
    [els |-> [sel \in AllSelectors |-> IF sel \in PopulatedSelectors THEN f[sel] ELSE <<>>],
     body |-> b]

Pages == {MkPage(f, b) : f \in [PopulatedSelectors -> ElementTexts], b \in Bodies}

UrlAmazon == <<"a", "m", "a", "z", "o", "n", ".", "i", "n", "/", "d", "p">>
UrlAmazonUpper == <<"A", "M", "A", "Z", "O", "N", ".", "i", "n">>
UrlFlipkart == <<"f", "l", "i", "p", "k", "a", "r", "t", ".", "c", "o", "m", "/", "p">>
UrlMyg == <<"m", "y", "g", ".", "i", "n", "/", "p">>
UrlCroma == <<"c", "r", "o", "m", "a", ".", "c", "o", "m">>
UrlShop == <<"s", "h", "o", "p", ".", "i", "o", "/", "a", "m", "a", "z", "o", "n", "-", "e", "c", "h", "o">>
UrlOther == <<"s", "h", "o", "p", ".", "i", "o", "/", "t", "v">>
NoUrl == <<>>

Urls == {UrlAmazon, UrlAmazonUpper, UrlFlipkart, UrlMyg, UrlCroma, UrlShop, UrlOther}

\* ---------------------------------------------------------------- Inputs: JSON documents
KeySelling == <<"s", "e", "l", "l", "i", "n", "g", "P", "r", "i", "c", "e">>
KeySp == <<"S", "P">>
KeyMrp == <<"m", "r", "p">>
KeyTitle == <<"t", "i", "t", "l", "e">>
KeyData == <<"d", "a", "t", "a">>

DocKeys == {KeySelling, KeySp, KeyMrp, KeyTitle}

Txt41999 == <<Rupee, "4", "1", ",", "9", "9", "9">>
Txt59999 == <<Rupee, " ", "5", "9", ",", "9", "9", "9">>
TxtName == <<"T", "V", " ", "4", "3">>

Leaves == {JNum(41999), JNum(59999), JNum(500), JStr(Txt41999), JStr(Txt59999),
           JStr(TxtName), JNull}

FlatDocs == {JDict(<<Entry(kk[1], v1), Entry(kk[2], v2)>>) :
               kk \in {p \in DocKeys \X DocKeys : p[1] # p[2]}, v1 \in Leaves, v2 \in Leaves}

NestedDocs == {JDict(<<Entry(KeyData, JDict(<<Entry(k1, v1)>>)), Entry(KeySelling, v2)>>) :
                 k1 \in {KeyMrp, KeySp}, v1 \in Leaves, v2 \in Leaves}

ListDocs == {JList(<<JDict(<<Entry(KeyMrp, v1)>>), JDict(<<Entry(KeySp, v2)>>)>>) :
               v1 \in Leaves, v2 \in Leaves}

Docs == FlatDocs \cup NestedDocs \cup ListDocs

\* ---------------------------------------------------------------- Page scraping on its own
NotScraped == [done |-> FALSE, price |-> None, stage |-> "none", profile |-> "none",
               site |-> "none"]

\* lines 354-357 of check_item on one fetched page
Scraped(x, u) ==
    [done |-> TRUE, price |-> x.price, stage |-> x.stage, profile |-> SelectorProfile(u),
     site |-> guess_site(u)]

ScrapeResult(soup, u) == Scraped(ExtractFromHtml(soup, Html(soup), u), u)

NotChecked == [kind |-> "idle", item |-> 0, key |-> <<>>, price |-> None, site |-> "unknown",
               calledApi |-> FALSE, apiPrices |-> <<>>, ranHtml |-> FALSE, htmlStage |-> "none",
               low |-> None]

MainIdle ==
    /\ price_history = <<>>
    /\ notifications = <<>>
    /\ idx = 0
    /\ run = <<>>
    /\ clock = 0
    /\ last = NotChecked

JsonIdle ==
    /\ doc = <<>>
    /\ found = [done |-> FALSE, price |-> None]

InitHtml ==
    /\ url \in Urls
    /\ page \in Pages
    /\ chosen = NotScraped
    /\ MainIdle
    /\ JsonIdle

ScrapePage ==
    /\ ~chosen.done
    /\ chosen' = ScrapeResult(page, url)
    /\ UNCHANGED <<url, page, mainVars, jsonVars>>

NextHtml == ScrapePage

SpecHtml == InitHtml /\ [][NextHtml]_vars

\* ---------------------------------------------------------------- JSON walk on its own
HtmlIdle ==
    /\ url = NoUrl
    /\ page = <<>>
    /\ chosen = NotScraped

InitJson ==
    /\ doc \in Docs
    /\ found = [done |-> FALSE, price |-> None]
    /\ MainIdle
    /\ HtmlIdle

\* lines 137-139 of fetch_flipkart_price_by_pid on one parsed document
WalkDocument ==
    /\ ~found.done
    /\ found' = [done |-> TRUE,
                 price |-> IF DataTruthy(doc) THEN find_price_in_json(doc) ELSE None]
    /\ UNCHANGED <<doc, mainVars, htmlVars>>

NextJson == WalkDocument

SpecJson == InitJson /\ [][NextJson]_vars

\* ---------------------------------------------------------------- History store
\* rows of price_history whose url column is key, in id order
RowsOf(history, key) == SelectSeq(history, LAMBDA r : r.url = key)

\* the timedelta(days=30) default of last_n_days_low, in clock units (days)
WindowDays == 30

\* SELECT MIN(price) ... WHERE url = ? AND checked_at >= cutoff
last_n_days_low(history, key, now) ==
    LET cutoff == now - WindowDays
        inWindow == {history[i].price : i \in {j \in 1..Len(history) :
                        history[j].url = key /\ history[j].checked_at >= cutoff}}
    IN IF inWindow = {} THEN None
       ELSE LET m == CHOOSE x \in inWindow : \A y \in inWindow : x <= y
            IN IF Truthy(m) THEN m ELSE None

save_price(history, key, site, price, now) ==
    Append(history, [url |-> key, site |-> site, price |-> price, checked_at |-> now])

\* ---------------------------------------------------------------- check_item
\* "url or flipkart_pid" as passed to the SELECT of line 367
LookupKey(item) == IF item.url # <<>> THEN item.url ELSE item.flipkart_pid

\* "flipkart_pid or url" in place of "url or flipkart_pid" on line 379
SaveKeyPidFirst(item) == IF item.flipkart_pid # <<>> THEN item.flipkart_pid ELSE item.url

\* "url or flipkart_pid" as passed to save_price on line 379
SaveKey(item) == IF item.url # <<>> THEN item.url ELSE item.flipkart_pid

\* "<=" in place of "<" on line 373
IsDropOrEqual(price, last_price) == price <= last_price

\* line 373
IsDrop(price, last_price) == price < last_price

\* line 360 never taking its early return
PriceMissingIgnored(price) == FALSE

\* line 360: "if not price"
PriceMissing(price) == ~Truthy(price)

\* line 349: "if price is None and url"
FallsBackToHtml(item, price) == price = None /\ item.url # <<>>

\* the price each endpoint's response alone would give
EndpointPrices(responses) ==
    [i \in 1..Len(responses) |->
        IF responses[i].ok /\ DataTruthy(responses[i].data)
        THEN find_price_in_json(responses[i].data) ELSE None]

\* lines 341-346: the API attempt
ApiAttempt(item, responses) ==
    IF item.flipkart_pid # <<>>
    THEN [called |-> TRUE, prices |-> EndpointPrices(responses),
          price |-> fetch_flipkart_price_by_pid(responses)]
    ELSE [called |-> FALSE, prices |-> <<>>, price |-> None]

\* lines 349-357: the HTML attempt, x being what extract_price_from_html gives
HtmlAttempt(item, api, fetched, x) ==
    IF FallsBackToHtml(item, api.price)
    THEN IF fetched.ok
         THEN [ran |-> TRUE, fetchFailed |-> FALSE, stage |-> x.stage, price |-> x.price,
               site |-> guess_site(item.url)]
         ELSE [ran |-> TRUE, fetchFailed |-> TRUE, stage |-> "none", price |-> None,
               site |-> "unknown"]
    ELSE [ran |-> FALSE, fetchFailed |-> FALSE, stage |-> "none", price |-> api.price,
          site |-> IF Truthy(api.price) THEN "flipkart" ELSE "unknown"]

\* lines 359-379: the decision, prior being the rows the SELECT of line 367 ranges
\* over and low what last_n_days_low returns
Decide(item, api, html, prior, low) ==
    LET base == [NotChecked EXCEPT !.calledApi = api.called, !.apiPrices = api.prices,
                                   !.ranHtml = html.ran, !.htmlStage = html.stage,
                                   !.price = html.price, !.site = html.site]
    IN IF html.fetchFailed THEN [base EXCEPT !.kind = "fetch_failed"]
       ELSE IF PriceMissing(html.price) THEN [base EXCEPT !.kind = "not_found"]
       ELSE IF prior = <<>> THEN [base EXCEPT !.kind = "new_tracking", !.key = SaveKey(item)]
       ELSE IF IsDrop(html.price, prior[Len(prior)].price)
       THEN [base EXCEPT !.kind = "price_drop", !.key = SaveKey(item),
                         !.low = IF Truthy(low) THEN low ELSE html.price]
       ELSE [base EXCEPT !.kind = "no_change", !.key = SaveKey(item)]

Acquire(item, api, fetched, history, now) ==
    Decide(item, api,
           HtmlAttempt(item, api, fetched,
                       ExtractFromHtml(fetched.soup, Html(fetched.soup), item.url)),
           RowsOf(history, LookupKey(item)),
           last_n_days_low(history, LookupKey(item), now))

\* check_item on one product: responses are what the API endpoints answer, fetched is
\* what get_page returns (ok FALSE for None).  The result says how the check ended
\* and what it read; the CheckItem action applies its effects.
check_item(item, responses, fetched, history, now) ==
    IF item.url = <<>> /\ item.flipkart_pid = <<>>
    THEN [NotChecked EXCEPT !.kind = "invalid"]
    ELSE Acquire(item, ApiAttempt(item, responses), fetched, history, now)

Saved(kind) == kind \in {"new_tracking", "price_drop", "no_change"}

\* the message check_item hands to send_telegram_message
Message(item, o, history) ==
    LET prior == RowsOf(history, LookupKey(item))
    IN IF o.kind = "price_drop"
       THEN [kind |-> "price_drop", key |-> LookupKey(item), old |-> prior[Len(prior)].price,
             new |-> o.price, low |-> o.low]
       ELSE [kind |-> "new_tracking", key |-> LookupKey(item), old |-> None,
             new |-> o.price, low |-> None]

send_telegram_message(sent, msg) == Append(sent, msg)

\* ---------------------------------------------------------------- Inputs: products and fetches
Pid1 == <<"M", "O", "B", "1">>
Pid2 == <<"T", "V", "2">>

products == <<[url |-> UrlAmazon, flipkart_pid |-> <<>>],
              [url |-> <<>>, flipkart_pid |-> Pid1],
              [url |-> UrlFlipkart, flipkart_pid |-> Pid2],
              [url |-> <<>>, flipkart_pid |-> <<>>]>>

Failed == [ok |-> FALSE, data |-> JNull]
Answer(d) == [ok |-> TRUE, data |-> d]

DocSelling == JDict(<<Entry(KeySelling, JNum(41999)), Entry(KeyMrp, JNum(59999))>>)
DocSp == JDict(<<Entry(KeyData, JDict(<<Entry(KeySp, JStr(Txt59999))>>))>>)
DocNoPrice == JDict(<<Entry(KeyTitle, JStr(TxtName)), Entry(KeySp, JNum(500))>>)

\* what the three endpoints may answer during one check
ApiAnswers == {<<Failed, Failed, Failed>>,
               <<Failed, Answer(DocSelling), Answer(DocSp)>>,
               <<Answer(DocNoPrice), Answer(JNull), Answer(DocSp)>>}

PageOf(f, b) == [els |-> [sel \in AllSelectors |-> f[sel]], body |-> b]
NoElements == [sel \in AllSelectors |-> <<>>]

PageSale == PageOf([NoElements EXCEPT !["#priceblock_ourprice"] = TxtSale,
                                      ![".a-price-whole"] = TxtEmi,
                                      ![".price"] = TxtList], BodyPlain)
PageRegex == PageOf(NoElements, BodyCurrency)
PageNoPrice == PageOf([NoElements EXCEPT ![".price"] = TxtHuge], BodyPlain)

\* what get_page may return during one check
Fetches == {[ok |-> FALSE, soup |-> PageRegex],
            [ok |-> TRUE, soup |-> PageSale],
            [ok |-> TRUE, soup |-> PageRegex],
            [ok |-> TRUE, soup |-> PageNoPrice]}

\* ---------------------------------------------------------------- The tracker
MaxRows == 3
MaxClock == 32
TickDays == {16}

Init ==
    /\ MainIdle
    /\ HtmlIdle
    /\ JsonIdle

\* main up to its loop: init_db, read products
MainStart ==
    /\ idx = 0
    /\ idx' = 1
    /\ UNCHANGED <<price_history, notifications, run, clock, last, htmlVars, jsonVars>>

\* the effects of one check whose result is o: the alert, the appended row
Apply(item, o) ==
    /\ last' = [o EXCEPT !.item = idx]
    /\ notifications' =
         IF o.kind \in {"new_tracking", "price_drop"}
         THEN send_telegram_message(notifications, Message(item, o, price_history))
         ELSE notifications
    /\ price_history' =
         IF Saved(o.kind)
         THEN save_price(price_history, SaveKey(item), o.site, o.price, clock)
         ELSE price_history
    /\ run' = Append(run, o.kind)

\* one iteration of main's loop: check_item(item) under try/except
CheckItem ==
    /\ idx \in 1..Len(products)
    /\ Len(price_history) < MaxRows
    /\ \E responses \in ApiAnswers, fetched \in Fetches :
         Apply(products[idx], check_item(products[idx], responses, fetched, price_history, clock))
    /\ idx' = idx + 1
    /\ UNCHANGED <<clock, htmlVars, jsonVars>>

\* main after its loop; the record of the finished run is dropped
MainEnd ==
    /\ idx = Len(products) + 1
    /\ idx' = 0
    /\ run' = <<>>
    /\ last' = NotChecked
    /\ UNCHANGED <<price_history, notifications, clock, htmlVars, jsonVars>>

\* time passes between runs
Tick ==
    /\ idx = 0
    /\ \E d \in TickDays :
         /\ clock + d <= MaxClock
         /\ clock' = clock + d
    /\ UNCHANGED <<price_history, notifications, idx, run, last, htmlVars, jsonVars>>

Next == MainStart \/ CheckItem \/ MainEnd \/ Tick

Spec == Init /\ [][Next]_vars

\* ---------------------------------------------------------------- Properties
\* least element of a non-empty set of integers
MinOf(S) == CHOOSE x \in S : \A y \in S : x <= y

\* the in-bounds values of a candidate list
InBoundsOf(candidates) ==
    {candidates[i] : i \in {j \in 1..Len(candidates) :
        candidates[j] >= 1000 /\ candidates[j] <= 200000}}

\* the key the data model gives a product: its url, or its flipkart_pid when url is absent
KeyOf(item) == IF item.url # <<>> THEN item.url ELSE item.flipkart_pid

\* a step of the loop of main
IsCheckStep == idx \in 1..Len(products) /\ idx' # idx

\* C1: every row of price_history has a price within 1000..200000
C1_PersistedInBounds ==
    \A i \in 1..Len(price_history) :
        price_history[i].price >= 1000 /\ price_history[i].price <= 200000

\* C1: a row read from the API and a row read from a page are both stored
C1_Witness ==
    /\ Len(price_history) = 2
    /\ price_history[1].site = "amazon"
    /\ price_history[2].site = "flipkart"
    /\ last.calledApi /\ ~last.ranHtml

\* C2: a check that extracted a price appends the observation and is classified by the
\* latest earlier row of its key alone: none - a "started tracking" message; a higher
\* price - a "price dropped" message with the old and the new price; otherwise no message
C2_Classification ==
    [][(IsCheckStep /\ last'.price # None) =>
        LET key == KeyOf(products[idx])
            newPrice == last'.price
            prior == RowsOf(price_history, key)
            lastPrice == prior[Len(prior)].price
            sent == notifications'[Len(notifications')]
            row == price_history'[Len(price_history')]
        IN /\ Len(price_history') = Len(price_history) + 1
           /\ SubSeq(price_history', 1, Len(price_history)) = price_history
           /\ row.url = key /\ row.price = newPrice
           /\ IF prior = <<>>
              THEN /\ last'.kind = "new_tracking"
                   /\ Len(notifications') = Len(notifications) + 1
                   /\ sent.kind = "new_tracking" /\ sent.key = key /\ sent.new = newPrice
              ELSE IF lastPrice > newPrice
              THEN /\ last'.kind = "price_drop"
                   /\ Len(notifications') = Len(notifications) + 1
                   /\ sent.kind = "price_drop" /\ sent.key = key
                   /\ sent.old = lastPrice /\ sent.new = newPrice
              ELSE /\ last'.kind = "no_change"
                   /\ notifications' = notifications]_vars

\* C2: an unchanged price was observed again: two rows, one message
C2_Witness ==
    /\ last.kind = "no_change"
    /\ Len(price_history) = 2
    /\ price_history[1].url = price_history[2].url
    /\ price_history[1].price = price_history[2].price
    /\ Len(notifications) = 1

\* C3: the rolling low of a price-drop alert is the least price of the key within the
\* trailing 30 days, the new observation included, so it never exceeds the new price
C3_RollingLowInclusive ==
    last.kind = "price_drop" =>
        LET inWindow == {price_history[i].price : i \in {j \in 1..Len(price_history) :
                            /\ price_history[j].url = last.key
                            /\ price_history[j].checked_at >= clock - 30}}
        IN /\ last.low = MinOf(inWindow)
           /\ last.low <= last.price

\* C4: the result is the least in-bounds candidate of the earliest stage that has one
\* (selectors of the profile, then those with the default selectors added, then the
\* regular expressions over the raw text), and None exactly when no stage has one
C4_EarliestStageMinimum ==
    chosen.done =>
        LET sels == IF chosen.profile = "amazon" THEN AmazonSelectors ELSE DefaultSelectors
            s1 == InBoundsOf(extract_candidates_by_selectors(page, sels))
            s2 == s1 \cup InBoundsOf(extract_candidates_by_selectors(page, DefaultSelectors))
            s3 == InBoundsOf(fallback_regex_candidates(Html(page)))
        IN /\ s1 # {} => chosen.price = MinOf(s1) /\ chosen.stage = "selector"
           /\ s1 = {} /\ s2 # {} => chosen.price = MinOf(s2) /\ chosen.stage = "fallback"
           /\ s1 = {} /\ s2 = {} /\ s3 # {} => chosen.price = MinOf(s3) /\ chosen.stage = "regex"
           /\ (chosen.price = None) <=> (s1 = {} /\ s2 = {} /\ s3 = {})

\* C4: the profile's selectors give nothing in bounds, the default selectors give two
\* values, and the raw text holds further numbers
C4_Witness ==
    /\ chosen.done
    /\ chosen.stage = "fallback"
    /\ chosen.profile = "amazon"
    /\ Cardinality(InBoundsOf(extract_candidates_by_selectors(page, DefaultSelectors))) = 2
    /\ page.els["#priceblock_ourprice"] # <<>>
    /\ chosen.price = 45999

\* C5: when the raw text holds an in-bounds currency-prefixed number, the regex stage
\* returns the least such number and never a bare digit group
C5_CurrencyBeforeBare ==
    (chosen.done /\ chosen.stage = "regex"
       /\ InBoundsOf(CurrencyCandidates(Html(page))) # {})
    => chosen.price = MinOf(InBoundsOf(CurrencyCandidates(Html(page))))

\* C6 as first stated: a product with a flipkart_pid takes its price from the API
\* endpoints only, and no page is fetched or scraped for it
C6_ApiOnly ==
    last.calledApi =>
        /\ ~last.ranHtml
        /\ (\A i \in 1..Len(last.apiPrices) : last.apiPrices[i] = None) => last.kind = "not_found"

\* C6 amended: a product with a flipkart_pid takes the price of the first endpoint, in
\* order, that gives an in-bounds one, and then no page is fetched; when no endpoint
\* gives one it is skipped if it has no url, and is scraped from its url otherwise
C6_ApiFirstThenHtml ==
    last.calledApi =>
        LET hits == {i \in 1..Len(last.apiPrices) :
                        last.apiPrices[i] >= 1000 /\ last.apiPrices[i] <= 200000}
        IN /\ Len(last.apiPrices) = 3
           /\ hits # {} =>
                /\ ~last.ranHtml
                /\ last.price = last.apiPrices[MinOf(hits)]
                /\ last.site = "flipkart"
                /\ last.kind \in {"new_tracking", "price_drop", "no_change"}
           /\ hits = {} /\ products[last.item].url = <<>> =>
                /\ ~last.ranHtml
                /\ last.kind = "not_found"
           /\ hits = {} /\ products[last.item].url # <<>> =>
                /\ last.ranHtml
                /\ \/ last.kind = "fetch_failed"
                   \/ last.kind = "not_found" /\ last.htmlStage = "none"
                   \/ /\ last.kind \in {"new_tracking", "price_drop", "no_change"}
                      /\ last.htmlStage # "none"
                      /\ last.site = guess_site(products[last.item].url)

\* C6: every endpoint failed for a product with both a flipkart_pid and a url, and
\* the price scraped from the url was stored
C6_Witness ==
    /\ last.calledApi
    /\ last.ranHtml
    /\ last.kind = "new_tracking"
    /\ price_history[Len(price_history)].url = UrlFlipkart

RECURSIVE WhitelistedValues(_)
\* the in-bounds values the scalars under whitelisted keys of a document hold
WhitelistedValues(node) ==
    UNION {IF node.kids[i].v.t \in {"dict", "list"}
           THEN WhitelistedValues(node.kids[i].v)
           ELSE IF node.t = "dict" /\ Lower(node.kids[i].k) \in PriceKeys
           THEN {only_digits_int(Str(node.kids[i].v))} \cap 1000..200000
           ELSE {} : i \in 1..Len(node.kids)}

\* C7: when some whitelisted key holds an in-bounds scalar, the value returned is one
\* read from a whitelisted key, whatever the other keys hold
C7_WhitelistWins ==
    (found.done /\ WhitelistedValues(doc) # {}) => found.price \in WhitelistedValues(doc)

\* C8: a check that ends without an in-bounds price appends no row and sends no
\* message; every check, failed or not, appends at most one row, under the key of
\* its own product, and hands over to the next product in input order
C8_FailureIsolated ==
    [][IsCheckStep =>
        /\ idx' = idx + 1
        /\ last'.item = idx
        /\ Len(run') = idx
        /\ ~(last'.price >= 1000 /\ last'.price <= 200000)
             => price_history' = price_history /\ notifications' = notifications
        /\ KeyOf(products[idx]) = <<>>
             => price_history' = price_history /\ notifications' = notifications
        /\ price_history' # price_history =>
             /\ Len(price_history') = Len(price_history) + 1
             /\ SubSeq(price_history', 1, Len(price_history)) = price_history
             /\ price_history'[Len(price_history')].url = KeyOf(products[idx])]_vars

\* C8: a run in which the first product's page could not be fetched, the second
\* product had no price, the third was stored and the fourth had no url and no pid
C8_Witness ==
    /\ idx = Len(products) + 1
    /\ run = <<"fetch_failed", "not_found", "new_tracking", "invalid">>
    /\ Len(price_history) = 1
    /\ Len(notifications) = 1

\* the site tag by the stated priority amazon > flipkart > myg > croma > unknown
ClassifiedSite(u) ==
    IF u = <<>> THEN "unknown"
    ELSE IF Contains(Lower(u), <<"a", "m", "a", "z", "o", "n", ".">>) THEN "amazon"
    ELSE IF Contains(Lower(u), <<"f", "l", "i", "p", "k", "a", "r", "t", ".">>) THEN "flipkart"
    ELSE IF Contains(Lower(u), <<"m", "y", "g", ".">>) THEN "myg"
    ELSE IF Contains(Lower(u), <<"c", "r", "o", "m", "a", ".">>) THEN "croma"
    ELSE "unknown"

\* C9: the site of a page is the first of amazon, flipkart, myg, croma whose domain
\* fragment its lower-cased url contains, else unknown, and the amazon selectors are
\* used exactly when that site is amazon
C9_SiteAndProfile ==
    chosen.done =>
        /\ chosen.site = ClassifiedSite(url)
        /\ (chosen.profile = "amazon") <=> (chosen.site = "amazon")

\* C10: a key has one "started tracking" message exactly when it has a row, that
\* message carries the price of the key's first row and precedes every "price
\* dropped" message of the key, and rows and messages are filed under the product's key
C10_StartedOnce ==
    LET started(key) == {i \in 1..Len(notifications) :
                            notifications[i].kind = "new_tracking" /\ notifications[i].key = key}
        keys == {KeyOf(products[i]) : i \in 1..Len(products)}
    IN /\ \A i \in 1..Len(price_history) : price_history[i].url \in keys \ {<<>>}
       /\ \A i \in 1..Len(notifications) : notifications[i].key \in keys \ {<<>>}
       /\ \A key \in keys :
            IF RowsOf(price_history, key) = <<>>
            THEN \A i \in 1..Len(notifications) : notifications[i].key # key
            ELSE /\ Cardinality(started(key)) = 1
                 /\ \A i \in started(key) :
                      notifications[i].new = RowsOf(price_history, key)[1].price
       /\ \A j \in 1..Len(notifications) :
            notifications[j].kind = "price_drop" =>
                \E i \in 1..(j - 1) : i \in started(notifications[j].key)
       /\ last.kind \in {"new_tracking", "price_drop", "no_change"} =>
            price_history[Len(price_history)].url = KeyOf(products[last.item])

\* C10: a product with both a url and a flipkart_pid was first tracked and then
\* dropped in price, both under its url
C10_Witness ==
    /\ Len(notifications) = 2
    /\ notifications[1].kind = "new_tracking"
    /\ notifications[2].kind = "price_drop"
    /\ notifications[1].key = UrlFlipkart
    /\ notifications[2].key = UrlFlipkart
    /\ Len(RowsOf(price_history, UrlFlipkart)) = 2

====
